---------------------------- MODULE Spec2Model ----------------------------
(***************************************************************************)
(* A model of src/app.py: the statistics fetcher get_fcz_stats with its    *)
(* live path get_stats_from_api, the static record get_sample_data and     *)
(* the helper format_date.                                                 *)
(*                                                                         *)
(* Python values are tagged records [t |-> tag, v |-> payload]:            *)
(*   None, PyInt(n), PyStr(chunks), PyList(seq), PyDict(function).         *)
(* A string is a sequence of chunks.  Text the program parses or formats   *)
(* (timestamps, scores) is held one character per chunk; text it only      *)
(* copies (names) is held as one chunk.  The empty string is <<>>.         *)
(* An expression whose evaluation raises has the value Raise(exception).   *)
(***************************************************************************)
EXTENDS Integers, Sequences, FiniteSets, TLC

VARIABLES
    API_KEY,    \* the module-level credential (src/app.py:22-25)
    pc,         \* where the call of get_fcz_stats stands
    stats,      \* the local record of get_stats_from_api
    reply,      \* what the remote API answered to each request of this call
    calls,      \* the requests issued so far, in order
    ret,        \* what get_fcz_stats returned
    raised,     \* the exception that left get_fcz_stats, "none" if none
    log,        \* the errors app.logger.error recorded: <<handler, exception>>
    fd_arg,     \* format_date: the argument of the call
    fd_pc,      \* format_date: "idle", "called" or "done"
    fd_out      \* format_date: the value returned, or Raise(...)

vars == <<API_KEY, pc, stats, reply, calls, ret, raised, log, fd_arg, fd_pc, fd_out>>

---------------------------------------------------------------------------
(* Python values *)

None == [t |-> "none"]

PyInt(n) == [t |-> "int", v |-> n]

PyStr(chunks) == [t |-> "str", v |-> chunks]

PyList(seq) == [t |-> "list", v |-> seq]

PyDict(f) == [t |-> "dict", v |-> f]

Raise(exc) == [t |-> "raise", v |-> exc]

Name(s) == PyStr(<<s>>)

EmptyStr == PyStr(<<>>)

EmptyDict == PyDict(<<>>)

IsRaise(x) == x.t = "raise"

\* bool(x) of Python
Truthy(x) ==
    CASE x.t = "none" -> FALSE
      [] x.t = "int" -> x.v # 0
      [] x.t = "str" -> Len(x.v) > 0
      [] x.t = "list" -> Len(x.v) > 0
      [] x.t = "dict" -> DOMAIN x.v # {}
      [] OTHER -> FALSE

\* x.get(key, default): only a dict has the method
Get(x, key, default) ==
    CASE IsRaise(x) -> x
      [] x.t = "dict" -> IF key \in DOMAIN x.v THEN x.v[key] ELSE default
      [] OTHER -> Raise("AttributeError")

\* len(x)
PyLen(x) ==
    CASE IsRaise(x) -> x
      [] x.t \in {"str", "list"} -> PyInt(Len(x.v))
      [] x.t = "dict" -> PyInt(Cardinality(DOMAIN x.v))
      [] OTHER -> Raise("TypeError")

\* x[0]
First(x) ==
    CASE IsRaise(x) -> x
      [] x.t = "list" -> IF Len(x.v) > 0 THEN x.v[1] ELSE Raise("IndexError")
      [] x.t = "str" -> IF Len(x.v) > 0 THEN PyStr(<<x.v[1]>>) ELSE Raise("IndexError")
      [] x.t = "dict" -> Raise("KeyError")
      [] OTHER -> Raise("TypeError")

Min(a, b) == IF a < b THEN a ELSE b

\* x[:n]
Slice(x, n) ==
    CASE IsRaise(x) -> x
      [] x.t = "list" -> PyList(SubSeq(x.v, 1, Min(n, Len(x.v))))
      [] x.t = "str" -> PyStr(SubSeq(x.v, 1, Min(n, Len(x.v))))
      [] OTHER -> Raise("TypeError")

\* the items a for loop over x visits: the elements of a list, the
\* characters of a string, the keys of a dict
Items(x) ==
    CASE x.t = "list" -> x.v
      [] x.t = "str" -> [i \in 1..Len(x.v) |-> PyStr(<<x.v[i]>>)]
      [] OTHER -> <<>>

---------------------------------------------------------------------------
(* Text: decimal digits, str.replace, datetime.fromisoformat, strftime *)

DigitChars == <<"0", "1", "2", "3", "4", "5", "6", "7", "8", "9">>

IsDigit(c) == \E i \in 1..10 : DigitChars[i] = c

DigitValue(c) == (CHOOSE i \in 1..10 : DigitChars[i] = c) - 1

RECURSIVE Decimal(_)
\* str(n) for n >= 0
Decimal(n) ==
    IF n < 10 THEN <<DigitChars[n + 1]>>
    ELSE Decimal(n \div 10) \o <<DigitChars[(n % 10) + 1]>>

RECURSIVE Pad(_, _)
\* zero-padded to width w, as %d %m %H %M (w = 2) and %Y (w = 4) print
Pad(n, w) ==
    LET d == Decimal(n)
    IN IF Len(d) >= w THEN d ELSE <<"0">> \o Pad(n, w - 1)

AllDigits(s, i, n) == \A k \in i..(i + n - 1) : k <= Len(s) /\ IsDigit(s[k])

RECURSIVE NumAt(_, _, _)
\* the number the n digits of s from position i spell
NumAt(s, i, n) ==
    IF n = 0 THEN 0
    ELSE 10 * NumAt(s, i, n - 1) + DigitValue(s[i + n - 1])

RECURSIVE ReplaceZ(_)
\* s.replace('Z', '+00:00'): every occurrence
ReplaceZ(s) ==
    IF s = <<>> THEN <<>>
    ELSE (IF Head(s) = "Z" THEN <<"+", "0", "0", ":", "0", "0">> ELSE <<Head(s)>>)
         \o ReplaceZ(Tail(s))

IsLeap(y) == (y % 4 = 0 /\ y % 100 # 0) \/ y % 400 = 0

DaysInMonth(y, m) ==
    CASE m \in {4, 6, 9, 11} -> 30
      [] m = 2 -> IF IsLeap(y) THEN 29 ELSE 28
      [] OTHER -> 31

NoDate == [ok |-> FALSE, year |-> 0, month |-> 0, day |-> 0, hour |-> 0, minute |-> 0]

\* "+HH:MM" or "-HH:MM", an offset of less than a day
IsOffset(z) ==
    /\ Len(z) = 6
    /\ z[1] \in {"+", "-"}
    /\ AllDigits(z, 2, 2)
    /\ z[4] = ":"
    /\ AllDigits(z, 5, 2)
    /\ NumAt(z, 2, 2) * 60 + NumAt(z, 5, 2) < 1440

\* "HH", "HH:MM" or "HH:MM:SS" with the fields in range;
\* <<ok, hour, minute>>
ClockOf(c) ==
    LET shape == \/ (Len(c) = 2 /\ AllDigits(c, 1, 2))
                 \/ (Len(c) = 5 /\ AllDigits(c, 1, 2) /\ c[3] = ":" /\ AllDigits(c, 4, 2))
                 \/ (Len(c) = 8 /\ AllDigits(c, 1, 2) /\ c[3] = ":" /\ AllDigits(c, 4, 2)
                                /\ c[6] = ":" /\ AllDigits(c, 7, 2))
        hh == NumAt(c, 1, 2)
        mi == IF Len(c) >= 5 THEN NumAt(c, 4, 2) ELSE 0
        ss == IF Len(c) >= 8 THEN NumAt(c, 7, 2) ELSE 0
    IN IF shape /\ hh <= 23 /\ mi <= 59 /\ ss <= 59
       THEN <<TRUE, hh, mi>> ELSE <<FALSE, 0, 0>>

\* the position of the first "+" or "-" of c, 0 if there is none
SignPos(c) ==
    IF \E i \in 1..Len(c) : c[i] \in {"+", "-"}
    THEN CHOOSE i \in 1..Len(c) :
            /\ c[i] \in {"+", "-"}
            /\ \A j \in 1..(i - 1) : c[j] \notin {"+", "-"}
    ELSE 0

\* datetime.fromisoformat(s) on the character sequence s, for the forms
\* YYYY-MM-DD[*HH[:MM[:SS]][(+|-)HH:MM]]; ok = FALSE stands for ValueError
FromIsoFormat(s) ==
    LET dateOk == /\ Len(s) >= 10
                  /\ AllDigits(s, 1, 4) /\ s[5] = "-"
                  /\ AllDigits(s, 6, 2) /\ s[8] = "-"
                  /\ AllDigits(s, 9, 2)
        y == NumAt(s, 1, 4)
        m == NumAt(s, 6, 2)
        d == NumAt(s, 9, 2)
        inRange == y >= 1 /\ m \in 1..12 /\ d >= 1 /\ d <= DaysInMonth(y, m)
        rest == SubSeq(s, 12, Len(s))
        sp == SignPos(rest)
        clock == ClockOf(IF sp = 0 THEN rest ELSE SubSeq(rest, 1, sp - 1))
        zoneOk == sp = 0 \/ IsOffset(SubSeq(rest, sp, Len(rest)))
    IN IF ~dateOk THEN NoDate
       ELSE IF ~inRange THEN NoDate
       ELSE IF Len(s) = 10
            THEN [ok |-> TRUE, year |-> y, month |-> m, day |-> d, hour |-> 0, minute |-> 0]
       ELSE IF Len(s) = 11 THEN NoDate
       ELSE IF clock[1] /\ zoneOk
            THEN [ok |-> TRUE, year |-> y, month |-> m, day |-> d,
                  hour |-> clock[2], minute |-> clock[3]]
       ELSE NoDate

\* dt.strftime('%d.%m.%Y %H:%M')
StrfDisplay(dt) ==
    Pad(dt.day, 2) \o <<".">> \o Pad(dt.month, 2) \o <<".">> \o Pad(dt.year, 4)
    \o <<" ">> \o Pad(dt.hour, 2) \o <<":">> \o Pad(dt.minute, 2)

\* dt.strftime('%Y-%m-%d')
StrfDay(dt) ==
    Pad(dt.year, 4) \o <<"-">> \o Pad(dt.month, 2) \o <<"-">> \o Pad(dt.day, 2)

TBD == PyStr(<<"T", "B", "D">>)

\* format_date(date_str): only a str has .replace, and only ValueError is
\* caught
format_date(date_str) ==
    IF ~Truthy(date_str) THEN TBD
    ELSE IF date_str.t # "str" THEN Raise("AttributeError")
    ELSE LET dt == FromIsoFormat(ReplaceZ(date_str.v))
         IN IF dt.ok THEN PyStr(StrfDisplay(dt)) ELSE date_str


---------------------------------------------------------------------------
(* Program constants and the two records *)

FCZ_TEAM_NAME == "FC Zürich"

FCZ_TEAM_ID == 684

SWISS_SUPER_LEAGUE_ID == 207

\* the slice table[:10] of the standings loop
DisplayRows == 10

SampleRow(pos, name, w, d, l, gf, ga, gd, pts) ==
    [position |-> PyInt(pos), team |-> [name |-> Name(name), crest |-> EmptyStr],
     playedGames |-> PyInt(15), won |-> PyInt(w), draw |-> PyInt(d), lost |-> PyInt(l),
     goalsFor |-> PyInt(gf), goalsAgainst |-> PyInt(ga), goalDifference |-> PyInt(gd),
     points |-> PyInt(pts)]

SampleMatch(opponent, result, h, a, month, day) ==
    [opponent |-> Name(opponent), result |-> Name(result),
     score |-> PyStr(Decimal(h) \o <<"-">> \o Decimal(a)),
     date |-> PyStr(Pad(2024, 4) \o <<"-">> \o Pad(month, 2) \o <<"-">> \o Pad(day, 2))]

SampleSplit(p, w, d, l, gf, ga, pts) ==
    [played |-> PyInt(p), won |-> PyInt(w), drawn |-> PyInt(d), lost |-> PyInt(l),
     goals_for |-> PyInt(gf), goals_against |-> PyInt(ga), points |-> PyInt(pts)]

SampleMonth(m, p, w, d, l, gf, ga, pts) ==
    [month |-> Name(m), played |-> PyInt(p), won |-> PyInt(w), drawn |-> PyInt(d),
     lost |-> PyInt(l), goals_for |-> PyInt(gf), goals_against |-> PyInt(ga),
     points |-> PyInt(pts)]

SampleScorer(n, g, a) == [name |-> Name(n), goals |-> PyInt(g), assists |-> PyInt(a)]

\* a float, as the fraction num / den
PyFloat(num, den) == [t |-> "float", v |-> <<num, den>>]

\* get_sample_data()
get_sample_data ==
    [team_name |-> Name(FCZ_TEAM_NAME),
     league |-> Name("Swiss Super League"),
     season |-> PyStr(<<"2", "0", "2", "4", "/", "2", "5">>),
     position |-> PyInt(5),
     played |-> PyInt(15),
     won |-> PyInt(6),
     drawn |-> PyInt(4),
     lost |-> PyInt(5),
     goals_for |-> PyInt(22),
     goals_against |-> PyInt(18),
     goal_difference |-> PyInt(4),
     points |-> PyInt(22),
     next_match |-> PyDict([home_team |-> Name("FC Zürich"),
                            away_team |-> Name("BSC Young Boys"),
                            date |-> PyStr(<<"2", "0", "2", "4", "-", "1", "2", "-", "0", "7",
                                             "T", "1", "7", ":", "3", "0", ":", "0", "0", "Z">>),
                            competition |-> Name("Swiss Super League"),
                            venue |-> Name("Letzigrund")]),
     standings |-> PyList(<<
        SampleRow(1, "FC Lugano", 10, 3, 2, 28, 12, 16, 33),
        SampleRow(2, "FC Basel 1893", 9, 4, 2, 30, 15, 15, 31),
        SampleRow(3, "Servette FC", 8, 4, 3, 24, 14, 10, 28),
        SampleRow(4, "BSC Young Boys", 7, 5, 3, 25, 16, 9, 26),
        SampleRow(5, "FC Zürich", 6, 4, 5, 22, 18, 4, 22),
        SampleRow(6, "FC St. Gallen", 5, 5, 5, 20, 20, 0, 20),
        SampleRow(7, "FC Luzern", 5, 4, 6, 18, 22, -4, 19),
        SampleRow(8, "FC Sion", 4, 5, 6, 16, 21, -5, 17),
        SampleRow(9, "Grasshopper Club", 3, 4, 8, 14, 25, -11, 13),
        SampleRow(10, "FC Winterthur", 2, 4, 9, 12, 28, -16, 10)>>),
     recent_matches |-> PyList(<<
        SampleMatch("FC Lugano", "L", 1, 2, 11, 23),
        SampleMatch("FC St. Gallen", "W", 3, 1, 11, 9),
        SampleMatch("Servette FC", "D", 1, 1, 11, 2),
        SampleMatch("FC Sion", "W", 2, 0, 10, 26),
        SampleMatch("FC Basel 1893", "L", 0, 1, 10, 19)>>),
     home_stats |-> SampleSplit(8, 4, 2, 2, 14, 8, 14),
     away_stats |-> SampleSplit(7, 2, 2, 3, 8, 10, 8),
     monthly_stats |-> <<
        SampleMonth("Juli", 2, 1, 1, 0, 4, 2, 4),
        SampleMonth("August", 4, 2, 1, 1, 7, 5, 7),
        SampleMonth("September", 3, 1, 1, 1, 4, 4, 4),
        SampleMonth("Oktober", 3, 1, 0, 2, 3, 4, 3),
        SampleMonth("November", 3, 1, 1, 1, 4, 3, 4)>>,
     points_progression |-> <<4, 7, 10, 11, 14, 15, 16, 16, 17, 18, 18, 19, 22, 22, 22>>,
     goals_by_matchday |-> [scored |-> <<2, 2, 1, 2, 1, 1, 1, 0, 1, 1, 0, 1, 3, 0, 1>>,
                            conceded |-> <<1, 1, 2, 1, 1, 0, 1, 2, 1, 0, 2, 1, 1, 2, 2>>],
     top_scorers |-> <<
        SampleScorer("Jonathan Okita", 6, 3),
        SampleScorer("Juan José Perea", 5, 2),
        SampleScorer("Labinot Bajrami", 4, 4),
        SampleScorer("Mirlind Kryeziu", 3, 1),
        SampleScorer("Nikola Katic", 2, 0)>>,
     clean_sheets |-> PyInt(5),
     avg_goals_per_match |-> PyFloat(147, 100),
     avg_conceded_per_match |-> PyFloat(120, 100),
     win_percentage |-> PyInt(40),
     form_last_5 |-> <<"L", "W", "D", "W", "L">>]

\* the season the live path asks for, from datetime.now()
SeasonOf(now) == IF now.month >= 7 THEN now.year ELSE now.year - 1

\* f'{season}/{str(season + 1)[-2:]}'
SeasonLabel(season) ==
    LET nxt == Decimal(season + 1)
    IN PyStr(Decimal(season) \o <<"/">>
             \o SubSeq(nxt, IF Len(nxt) > 2 THEN Len(nxt) - 1 ELSE 1, Len(nxt)))

\* the mutant: points starts as null, like position
InitialStatsNullPoints(season) ==
    [team_name |-> Name(FCZ_TEAM_NAME),
     league |-> Name("Swiss Super League"),
     season |-> SeasonLabel(season),
     position |-> None,
     played |-> PyInt(0),
     won |-> PyInt(0),
     drawn |-> PyInt(0),
     lost |-> PyInt(0),
     goals_for |-> PyInt(0),
     goals_against |-> PyInt(0),
     goal_difference |-> PyInt(0),
     points |-> None,
     next_match |-> None,
     standings |-> PyList(<<>>),
     recent_matches |-> PyList(<<>>)]

\* the record get_stats_from_api starts from
InitialStats(season) ==
    [team_name |-> Name(FCZ_TEAM_NAME),
     league |-> Name("Swiss Super League"),
     season |-> SeasonLabel(season),
     position |-> None,
     played |-> PyInt(0),
     won |-> PyInt(0),
     drawn |-> PyInt(0),
     lost |-> PyInt(0),
     goals_for |-> PyInt(0),
     goals_against |-> PyInt(0),
     goal_difference |-> PyInt(0),
     points |-> PyInt(0),
     next_match |-> None,
     standings |-> PyList(<<>>),
     recent_matches |-> PyList(<<>>)]

---------------------------------------------------------------------------
(* What the remote API can answer.  An answer is named by a small          *)
(* descriptor; the payload the code reads is built from it.                *)

\* the longest league table answered
MaxRows == 12

\* the most fixtures in one answer
MaxFixtures == 2

\* the most goals of one side in a fixture
MaxGoals == 1

\* the name the tracked team's row carries when the provider spells it
\* without the diacritic
FCZ_ALIAS == "FC Zurich"

\* timestamp text YYYY-MM-DDTHH:MM:00 followed by suffix
IsoText(y, mo, d, h, mi, suffix) ==
    Pad(y, 4) \o <<"-">> \o Pad(mo, 2) \o <<"-">> \o Pad(d, 2) \o <<"T">>
    \o Pad(h, 2) \o <<":">> \o Pad(mi, 2) \o <<":", "0", "0">> \o suffix

NotADate == <<"n", "o", "t", "-", "a", "-", "d", "a", "t", "e">>

\* an HTTP answer: the request raised, or a status and a body;
\* a body that is no JSON is the value response.json() raises
Transport == [exc |-> TRUE, status |-> 0, body |-> None]

Http(status, body) == [exc |-> FALSE, status |-> status, body |-> body]

NotJson == Raise("JSONDecodeError")

NoReply == [kind |-> "none"]

\* the answers that differ only in the envelope
Envelopes == {"transport", "status500", "not_json", "no_response"}

EnvelopeReply(kind) ==
    CASE kind = "transport" -> Transport
      [] kind = "status500" -> Http(500, PyDict([errors |-> Name("server")]))
      [] kind = "not_json" -> Http(200, NotJson)
      [] OTHER -> Http(200, PyDict([results |-> PyInt(0)]))

(* A league table: len rows, the tracked team's row at index fcz (0: not   *)
(* in the table), and one row, at index odd (0: none), of a flavour:       *)
(*   alias        the tracked team's row, its name spelt FCZ_ALIAS         *)
(*   decoy        another team's row, its name the tracked team's name     *)
(*   no_all       no 'all' key        null_all    'all': null              *)
(*   no_goals     no 'goals' key      null_goals  'goals': null            *)
(*   null_played  'played': null      no_rank     no 'rank' key            *)
(*   not_dict     the row is a string                                      *)
RowFlavours == {"alias", "decoy", "no_all", "null_all", "no_goals", "null_goals",
                "null_played", "no_rank", "not_dict"}

\* the flavours with which a row still names its team by id
TrackedFlavours == RowFlavours \ {"decoy", "not_dict"}

RowPlayed(i) == 10 + i

RowWin(i) == 20 + i

RowDraw(i) == 30 + i

RowLose(i) == 40 + i

RowFor(i) == 50 + i

RowAgainst(i) == 60 + i

RowDiff(i) == 5 - i

RowPoints(i) == 70 + i

RowId(i, tracked) == IF tracked THEN FCZ_TEAM_ID ELSE 100 + i

\* the payload of row i
Row(i, tracked, flavour) ==
    LET name == CASE flavour = "alias" -> FCZ_ALIAS
                  [] flavour = "decoy" -> FCZ_TEAM_NAME
                  [] tracked -> FCZ_TEAM_NAME
                  [] OTHER -> "Club"
        team == PyDict([id |-> PyInt(RowId(i, tracked)), name |-> Name(name),
                        logo |-> Name("logo")])
        goals == PyDict([for |-> PyInt(RowFor(i)), against |-> PyInt(RowAgainst(i))])
        played == IF flavour = "null_played" THEN None ELSE PyInt(RowPlayed(i))
        counts == [played |-> played, win |-> PyInt(RowWin(i)),
                   draw |-> PyInt(RowDraw(i)), lose |-> PyInt(RowLose(i))]
        all == CASE flavour = "null_all" -> None
                 [] flavour = "no_goals" -> PyDict(counts)
                 [] flavour = "null_goals" -> PyDict(counts @@ [goals |-> None])
                 [] OTHER -> PyDict(counts @@ [goals |-> goals])
        tail == [team |-> team, goalsDiff |-> PyInt(RowDiff(i)), points |-> PyInt(RowPoints(i))]
    IN CASE flavour = "not_dict" -> Name("row")
         [] flavour = "no_all" -> PyDict(tail @@ [rank |-> PyInt(i)])
         [] flavour = "no_rank" -> PyDict(tail @@ [all |-> all])
         [] OTHER -> PyDict(tail @@ [rank |-> PyInt(i), all |-> all])

FlavourAt(d, i) == IF i = d.odd THEN d.flavour ELSE "good"

TablePayload(d) ==
    PyList([i \in 1..d.len |-> Row(i, i = d.fcz, FlavourAt(d, i))])

PlainTables ==
    {d \in [kind : {"table"}, len : 0..MaxRows, fcz : 0..MaxRows, odd : {0},
            flavour : {"good"}] : d.fcz <= d.len}

\* full tables with an odd row: before, at and after the tracked team's row
\* and as the last row, or as the first row of a table without the tracked team
OddTables ==
    {d \in [kind : {"table"}, len : {MaxRows}, fcz : {0, 2}, odd : {1, 2, 3, MaxRows},
            flavour : RowFlavours] :
        /\ d.odd <= d.len
        /\ d.fcz = 0 => d.odd = 1
        /\ d.odd = d.fcz => d.flavour \in TrackedFlavours
        /\ d.flavour = "alias" => d.odd = d.fcz}

StandingsAnswers ==
    {[kind |-> k] : k \in Envelopes \cup {"null_league", "null_standings", "null_table"}}
    \cup PlainTables \cup OddTables

StandingsReply(d) ==
    CASE d.kind \in Envelopes -> EnvelopeReply(d.kind)
      [] d.kind = "null_league" ->
            Http(200, PyDict([response |-> PyList(<<PyDict([league |-> None])>>)]))
      [] d.kind = "null_standings" ->
            Http(200, PyDict([response |->
                PyList(<<PyDict([league |-> PyDict([standings |-> None])])>>)]))
      [] d.kind = "null_table" ->
            Http(200, PyDict([response |->
                PyList(<<PyDict([league |-> PyDict([standings |-> PyList(<<None>>)])])>>)]))
      [] OTHER ->
            Http(200, PyDict([response |->
                PyList(<<PyDict([league |->
                    PyDict([standings |-> PyList(<<TablePayload(d)>>)])])>>)]))

(* The next fixture:                                                       *)
(*   good        every key present     sparse     the fixture is {}        *)
(*   empty       'response': []        null_teams 'teams': null            *)
(*   num_date    'date' is a number                                        *)
NextAnswers ==
    {[kind |-> k] : k \in Envelopes \cup {"empty", "good", "sparse", "null_teams", "num_date"}}

NextDate == IsoText(2026, 11, 7, 17, 30, <<"Z">>)

NextFixture(kind) ==
    LET date == IF kind = "num_date" THEN PyInt(1794072600) ELSE PyStr(NextDate)
        teams == IF kind = "null_teams" THEN None
                 ELSE PyDict([home |-> PyDict([id |-> PyInt(FCZ_TEAM_ID),
                                                name |-> Name(FCZ_ALIAS)]),
                              away |-> PyDict([id |-> PyInt(101), name |-> Name("Club")])])
    IN IF kind = "sparse" THEN EmptyDict
       ELSE PyDict([fixture |-> PyDict([date |-> date,
                                        venue |-> PyDict([name |-> Name("Letzigrund")])]),
                    teams |-> teams,
                    league |-> PyDict([name |-> Name("Schweizer Cup")])])

NextReply(d) ==
    CASE d.kind \in Envelopes -> EnvelopeReply(d.kind)
      [] d.kind = "empty" -> Http(200, PyDict([response |-> PyList(<<>>)]))
      [] OTHER -> Http(200, PyDict([response |-> PyList(<<NextFixture(d.kind)>>)]))

(* A finished fixture: the tracked team at home or away, the goals of      *)
(* both sides, and a flavour:                                              *)
(*   null_goals  'home': null (not played)   no_goals  no 'goals' key      *)
(*   bad_date    'date' is no timestamp      no_date   no 'date' key       *)
(*   num_date    'date' is a number          no_teams  no 'teams' key      *)
(*   neutral     neither side is the tracked team, the home side carries   *)
(*               its name                    not_dict  the fixture is a    *)
(*               string                                                    *)
FixtureFlavours == {"null_goals", "no_goals", "bad_date", "no_date", "num_date",
                    "no_teams", "neutral", "not_dict"}

GoodFixtures ==
    [flavour : {"good"}, home : BOOLEAN, hg : 0..MaxGoals, ag : 0..MaxGoals]

OddFixtures == [flavour : FixtureFlavours, home : {TRUE}, hg : {1}, ag : {0}]

BaseFixture == [flavour |-> "good", home |-> TRUE, hg |-> 1, ag |-> 0]

\* the fixtures whose processing raises
RaisingFlavours == {"null_goals", "num_date", "not_dict"}

FixtureDate == IsoText(2026, 10, 31, 18, 0, <<"Z">>)

Fixture(f) ==
    LET fczSide == PyDict([id |-> PyInt(FCZ_TEAM_ID), name |-> Name(FCZ_ALIAS)])
        oppSide == PyDict([id |-> PyInt(101), name |-> Name("Club")])
        decoy == PyDict([id |-> PyInt(102), name |-> Name(FCZ_TEAM_NAME)])
        teams == CASE f.flavour = "neutral" -> [home |-> decoy, away |-> oppSide]
                   [] f.home -> [home |-> fczSide, away |-> oppSide]
                   [] OTHER -> [home |-> oppSide, away |-> fczSide]
        goals == IF f.flavour = "null_goals"
                 THEN [home |-> None, away |-> None]
                 ELSE [home |-> PyInt(f.hg), away |-> PyInt(f.ag)]
        fixture == CASE f.flavour = "bad_date" -> [date |-> PyStr(NotADate)]
                     [] f.flavour = "num_date" -> [date |-> PyInt(1793469600)]
                     [] f.flavour = "no_date" -> [id |-> PyInt(1)]
                     [] OTHER -> [date |-> PyStr(FixtureDate)]
    IN CASE f.flavour = "not_dict" -> Name("fixture")
         [] f.flavour = "no_goals" ->
                PyDict([fixture |-> PyDict(fixture), teams |-> PyDict(teams)])
         [] f.flavour = "no_teams" ->
                PyDict([fixture |-> PyDict(fixture), goals |-> PyDict(goals)])
         [] OTHER ->
                PyDict([fixture |-> PyDict(fixture), teams |-> PyDict(teams),
                        goals |-> PyDict(goals)])

RECURSIVE Repeat(_, _)
Repeat(x, n) == IF n = 0 THEN <<>> ELSE <<x>> \o Repeat(x, n - 1)

\* the fixture lists answered: one base fixture, any fixture as the last of
\* MaxFixtures with base fixtures before it, and a raising fixture as the
\* first of MaxFixtures
FixtureLists ==
    {<<BaseFixture>>}
    \cup {Repeat(BaseFixture, MaxFixtures - 1) \o <<f>> : f \in GoodFixtures \cup OddFixtures}
    \cup {<<f>> \o Repeat(BaseFixture, MaxFixtures - 1) :
        f \in {o \in OddFixtures : o.flavour \in RaisingFlavours}}

RecentAnswers ==
    {[kind |-> k] : k \in Envelopes \cup {"empty"}}
    \cup {[kind |-> "fixtures", list |-> l] : l \in FixtureLists}

RecentReply(d) ==
    CASE d.kind \in Envelopes -> EnvelopeReply(d.kind)
      [] d.kind = "empty" -> Http(200, PyDict([response |-> PyList(<<>>)]))
      [] OTHER ->
            Http(200, PyDict([response |->
                PyList([i \in 1..Len(d.list) |-> Fixture(d.list[i])])]))

---------------------------------------------------------------------------
(* get_stats_from_api: the three lookups.  Each takes the record so far    *)
(* and the HTTP answer and yields the record as the try block leaves it,   *)
(* with the exception that left the block's body ("none" if none).         *)

Done(st) == [stats |-> st, exc |-> "none"]

Fail(st, x) == [stats |-> st, exc |-> x.v]

\* the first value of xs that is a raise, None if there is none
FirstRaise(xs) ==
    IF \E i \in 1..Len(xs) : IsRaise(xs[i])
    THEN xs[CHOOSE i \in 1..Len(xs) :
                IsRaise(xs[i]) /\ \A j \in 1..(i - 1) : ~IsRaise(xs[j])]
    ELSE None

\* team_id == FCZ_TEAM_ID
IsTrackedTeam(team_id, team_name) == team_id = PyInt(FCZ_TEAM_ID)

\* the body of the standings loop up to formatted_standings.append
FormatTeam(team) ==
    LET team_data == Get(team, "team", EmptyDict)
        team_name == Get(team_data, "name", EmptyStr)
        team_id == Get(team_data, "id", None)
        all_stats == Get(team, "all", EmptyDict)
        rank == Get(team, "rank", None)
        crest == Get(team_data, "logo", EmptyStr)
        played == Get(all_stats, "played", PyInt(0))
        win == Get(all_stats, "win", PyInt(0))
        draw == Get(all_stats, "draw", PyInt(0))
        lose == Get(all_stats, "lose", PyInt(0))
        for == Get(Get(all_stats, "goals", EmptyDict), "for", PyInt(0))
        against == Get(Get(all_stats, "goals", EmptyDict), "against", PyInt(0))
        diff == Get(team, "goalsDiff", PyInt(0))
        points == Get(team, "points", PyInt(0))
        bad == FirstRaise(<<team_data, team_name, team_id, all_stats, rank, crest, played,
                            win, draw, lose, for, against, diff, points>>)
    IN IF IsRaise(bad) THEN [exc |-> bad.v]
       ELSE [exc |-> "none",
             team_id |-> team_id,
             team_name |-> team_name,
             row |-> [position |-> rank,
                      team |-> [name |-> team_name, crest |-> crest],
                      playedGames |-> played, won |-> win, draw |-> draw, lost |-> lose,
                      goalsFor |-> for, goalsAgainst |-> against,
                      goalDifference |-> diff, points |-> points]]

\* the nine assignments under "if team_id == FCZ_TEAM_ID"
SetSummary(st, row) ==
    [st EXCEPT !.position = row.position,
               !.played = row.playedGames,
               !.won = row.won,
               !.drawn = row.draw,
               !.lost = row.lost,
               !.goals_for = row.goalsFor,
               !.goals_against = row.goalsAgainst,
               !.goal_difference = row.goalDifference,
               !.points = row.points]

RECURSIVE StandingsLoop(_, _, _, _)
\* for team in table[:10]: ...; then stats['standings'] = formatted_standings
StandingsLoop(rows, k, st, formatted) ==
    IF k > Len(rows) THEN Done([st EXCEPT !.standings = PyList(formatted)])
    ELSE LET r == FormatTeam(rows[k])
         IN IF r.exc # "none" THEN [stats |-> st, exc |-> r.exc]
            ELSE StandingsLoop(rows, k + 1,
                               IF IsTrackedTeam(r.team_id, r.team_name)
                               THEN SetSummary(st, r.row) ELSE st,
                               Append(formatted, r.row))

\* table[:10]
TableSlice(table) == Slice(table, DisplayRows)

\* "x and len(x) > 0" for x = holder.get(key, default): <<value, exception>>
NonEmpty(x) ==
    IF IsRaise(x) THEN <<FALSE, x>>
    ELSE IF ~Truthy(x) THEN <<FALSE, None>>
    ELSE LET n == PyLen(x)
         IN IF IsRaise(n) THEN <<FALSE, n>> ELSE <<n.v > 0, None>>

\* the try block "Get standings"
StandingsLookup(st, resp) ==
    IF resp.exc THEN [stats |-> st, exc |-> "ConnectionError"]
    ELSE IF resp.status # 200 THEN Done(st)
    ELSE LET data == resp.body
             response == Get(data, "response", None)
             some == NonEmpty(response)
             league_data == Get(First(response), "league", EmptyDict)
             standings_data == Get(league_data, "standings", PyList(<<>>))
             any == NonEmpty(standings_data)
             table == TableSlice(First(standings_data))
         IN IF IsRaise(some[2]) THEN Fail(st, some[2])
            ELSE IF ~some[1] THEN Done(st)
            ELSE IF IsRaise(any[2]) THEN Fail(st, any[2])
            ELSE IF ~any[1] THEN Done(st)
            ELSE IF IsRaise(table) THEN Fail(st, table)
            ELSE StandingsLoop(Items(table), 1, st, <<>>)

\* the try block "Get next match"
NextMatchLookup(st, resp) ==
    IF resp.exc THEN [stats |-> st, exc |-> "ConnectionError"]
    ELSE IF resp.status # 200 THEN Done(st)
    ELSE LET data == resp.body
             response == Get(data, "response", None)
             some == NonEmpty(response)
             match == First(response)
             fixture == Get(match, "fixture", EmptyDict)
             teams == Get(match, "teams", EmptyDict)
             league == Get(match, "league", EmptyDict)
             venue == Get(fixture, "venue", EmptyDict)
             home_team == Get(Get(teams, "home", EmptyDict), "name", TBD)
             away_team == Get(Get(teams, "away", EmptyDict), "name", TBD)
             date == Get(fixture, "date", EmptyStr)
             competition == Get(league, "name", Name("Swiss Super League"))
             venue_name == Get(venue, "name", TBD)
             bad == FirstRaise(<<match, fixture, teams, league, venue, home_team,
                                 away_team, date, competition, venue_name>>)
         IN IF IsRaise(some[2]) THEN Fail(st, some[2])
            ELSE IF ~some[1] THEN Done(st)
            ELSE IF IsRaise(bad) THEN Fail(st, bad)
            ELSE Done([st EXCEPT !.next_match =
                        PyDict([home_team |-> home_team,
                                away_team |-> away_team,
                                date |-> date,
                                competition |-> competition,
                                venue |-> venue_name])])

\* a > b on two goal counts: <<value, exception>>
Greater(a, b) ==
    IF a.t = "int" /\ b.t = "int" THEN <<a.v > b.v, None>>
    ELSE <<FALSE, Raise("TypeError")>>

\* the mutant: the side taken from the name of the home team
IsHomeByName(home_team) == Get(home_team, "name", EmptyStr) = Name(FCZ_TEAM_NAME)

\* is_home = home_team.get('id') == FCZ_TEAM_ID
IsHome(home_team) == Get(home_team, "id", None) = PyInt(FCZ_TEAM_ID)

\* f'{x}' of a goal count
Shown(x) == IF x.t = "int" THEN Decimal(x.v) ELSE <<"None">>

\* the date of a recent match: format_date, then the day if the text parses
RecentDate(match_date) ==
    IF ~Truthy(match_date) THEN match_date
    ELSE LET formatted == format_date(match_date)
             dt == FromIsoFormat(ReplaceZ(match_date.v))
         IN IF IsRaise(formatted) THEN formatted
            ELSE IF dt.ok THEN PyStr(StrfDay(dt)) ELSE formatted

\* the body of the recent-matches loop: the entry appended, or the exception
RecentEntry(match) ==
    LET fixture == Get(match, "fixture", EmptyDict)
        teams == Get(match, "teams", EmptyDict)
        goals == Get(match, "goals", EmptyDict)
        home_team == Get(teams, "home", EmptyDict)
        away_team == Get(teams, "away", EmptyDict)
        home_goals == Get(goals, "home", PyInt(0))
        away_goals == Get(goals, "away", PyInt(0))
        home_id == Get(home_team, "id", None)
        bad == FirstRaise(<<fixture, teams, goals, home_team, away_team, home_goals,
                            away_goals, home_id>>)
        is_home == IsHome(home_team)
        opponent == IF is_home THEN Get(away_team, "name", EmptyStr)
                    ELSE Get(home_team, "name", EmptyStr)
        fcz_goals == IF is_home THEN home_goals ELSE away_goals
        opp_goals == IF is_home THEN away_goals ELSE home_goals
        more == Greater(fcz_goals, opp_goals)
        less == Greater(opp_goals, fcz_goals)
        result == IF more[1] THEN "W" ELSE IF less[1] THEN "L" ELSE "D"
        match_date == RecentDate(Get(fixture, "date", EmptyStr))
    IN IF IsRaise(bad) THEN [exc |-> bad.v]
       ELSE IF IsRaise(opponent) THEN [exc |-> opponent.v]
       ELSE IF IsRaise(more[2]) THEN [exc |-> more[2].v]
       ELSE IF IsRaise(match_date) THEN [exc |-> match_date.v]
       ELSE [exc |-> "none",
             entry |-> [opponent |-> opponent,
                        result |-> Name(result),
                        score |-> PyStr(Shown(home_goals) \o <<"-">> \o Shown(away_goals)),
                        date |-> match_date]]

RECURSIVE RecentLoop(_, _, _, _)
\* for match in data['response']: ...; then stats['recent_matches'] = recent
RecentLoop(matches, k, st, recent) ==
    IF k > Len(matches) THEN Done([st EXCEPT !.recent_matches = PyList(recent)])
    ELSE LET r == RecentEntry(matches[k])
         IN IF r.exc # "none" THEN [stats |-> st, exc |-> r.exc]
            ELSE RecentLoop(matches, k + 1, st, Append(recent, r.entry))

\* the try block "Get recent matches"
RecentLookup(st, resp) ==
    IF resp.exc THEN [stats |-> st, exc |-> "ConnectionError"]
    ELSE IF resp.status # 200 THEN Done(st)
    ELSE LET data == resp.body
             response == Get(data, "response", None)
         IN IF IsRaise(response) THEN Fail(st, response)
            ELSE IF ~Truthy(response) THEN Done(st)
            ELSE IF response.t = "dict" THEN Fail(st, Raise("AttributeError"))
            ELSE IF response.t \notin {"list", "str"} THEN Fail(st, Raise("TypeError"))
            ELSE RecentLoop(Items(response), 1, st, <<>>)

---------------------------------------------------------------------------
(* get_fcz_stats as a state machine: the call, the three lookups in the    *)
(* order of the source, the return.                                        *)

Steps == <<"standings", "next_match", "recent_matches">>

NoValue == [t |-> "unset"]

\* the exception classes the lookups can raise; all derive from Exception
ExceptionClasses == {"ConnectionError", "JSONDecodeError", "AttributeError", "TypeError",
                     "KeyError", "IndexError"}

\* the mutant: a handler that catches ValueError only
ExceptValueError(exc) == exc \in {"JSONDecodeError"}

\* "except Exception", the clause of all four handlers
ExceptException(exc) == exc \in ExceptionClasses

\* the mutant: the credential is not consulted
HasCredentialAlways(key) == TRUE

\* "if API_KEY"
HasCredential(key) == key # ""

\* the mutant: one handler around the three lookups, the first failure ends them
StepAfterAbort(step, exc) ==
    IF exc # "none" THEN "return"
    ELSE CASE step = "standings" -> "next_match"
           [] step = "next_match" -> "recent_matches"
           [] OTHER -> "return"

\* the mutant: a failed request is issued again
StepAfterRetry(step, exc) ==
    IF exc = "ConnectionError" THEN step
    ELSE CASE step = "standings" -> "next_match"
           [] step = "next_match" -> "recent_matches"
           [] OTHER -> "return"

\* the statement that follows a lookup's try block, whatever left its body
StepAfter(step, exc) ==
    CASE step = "standings" -> "next_match"
      [] step = "next_match" -> "recent_matches"
      [] OTHER -> "return"

\* the clock values datetime.now() is read at
Clocks == {[year |-> 2026, month |-> 6], [year |-> 2026, month |-> 7]}

\* the request of each lookup: path and parameters
Request(step, season) ==
    CASE step = "standings" ->
            [path |-> "/standings", league |-> SWISS_SUPER_LEAGUE_ID, season |-> season,
             team |-> 0, next |-> 0, last |-> 0]
      [] step = "next_match" ->
            [path |-> "/fixtures", league |-> 0, season |-> 0,
             team |-> FCZ_TEAM_ID, next |-> 1, last |-> 0]
      [] OTHER ->
            [path |-> "/fixtures", league |-> 0, season |-> 0,
             team |-> FCZ_TEAM_ID, next |-> 0, last |-> 5]

NoReplies == [s \in {"standings", "next_match", "recent_matches"} |-> NoReply]

Idle == /\ fd_arg = None
        /\ fd_pc = "idle"
        /\ fd_out = None

Init ==
    /\ API_KEY \in {"", "key"}
    /\ pc = "call"
    /\ stats = NoValue
    /\ reply = NoReplies
    /\ calls = <<>>
    /\ ret = NoValue
    /\ raised = "none"
    /\ log = <<>>
    /\ Idle

\* get_fcz_stats() up to the first request: without a credential the sample
\* record is returned at once
Call ==
    /\ pc = "call"
    /\ IF HasCredential(API_KEY)
       THEN \E now \in Clocks :
                /\ stats' = InitialStats(SeasonOf(now))
                /\ pc' = "standings"
                /\ ret' = ret
       ELSE /\ ret' = get_sample_data
            /\ pc' = "done"
            /\ stats' = stats
    /\ UNCHANGED <<API_KEY, reply, calls, raised, log, fd_arg, fd_pc, fd_out>>

\* the season the record in hand was built for
SeasonInHand ==
    CHOOSE y \in {SeasonOf(now) : now \in Clocks} : stats.season = SeasonLabel(y)

\* one try block: the request is issued, answered with d, and r is what the
\* block's body made of the answer; after the last block, "return stats",
\* with which the local record is gone.
\* An exception the block's handler does not catch goes to the handler of
\* get_fcz_stats; one that handler does not catch leaves get_fcz_stats.
Lookup(step, d, r) ==
    /\ pc = step
    /\ calls' = Append(calls, Request(step, SeasonInHand))
    /\ reply' = [reply EXCEPT ![step] = d]
    /\ IF r.exc = "none" \/ ExceptException(r.exc)
       THEN /\ IF StepAfter(step, r.exc) = "return"
               THEN pc' = "done" /\ ret' = r.stats /\ stats' = NoValue
               ELSE pc' = StepAfter(step, r.exc) /\ ret' = ret /\ stats' = r.stats
            /\ raised' = raised
            /\ log' = IF r.exc = "none" THEN log ELSE Append(log, <<step, r.exc>>)
       ELSE IF ExceptException(r.exc)
       THEN /\ ret' = get_sample_data
            /\ pc' = "done"
            /\ stats' = NoValue
            /\ raised' = raised
            /\ log' = Append(log, <<"api", r.exc>>)
       ELSE /\ raised' = r.exc
            /\ pc' = "done"
            /\ stats' = NoValue
            /\ ret' = ret
            /\ log' = log
    /\ UNCHANGED <<API_KEY, fd_arg, fd_pc, fd_out>>

Standings ==
    \E d \in StandingsAnswers :
        Lookup("standings", d, StandingsLookup(stats, StandingsReply(d)))

NextMatch ==
    \E d \in NextAnswers :
        Lookup("next_match", d, NextMatchLookup(stats, NextReply(d)))

RecentMatches ==
    \E d \in RecentAnswers :
        Lookup("recent_matches", d, RecentLookup(stats, RecentReply(d)))

Next == Call \/ Standings \/ NextMatch \/ RecentMatches

Spec == Init /\ [][Next]_vars

---------------------------------------------------------------------------
(* format_date as a function of its argument *)

StampYears == {2023, 2024}

StampMonths == {0, 2, 12, 13}

StampDays == {0, 1, 28, 29, 30, 31, 32}

StampHours == {0, 17, 23, 25}

StampMinutes == {0, 30, 60}

StampSuffixes == {<<>>, <<"Z">>, <<"+", "0", "0", ":", "0", "0">>, <<"-", "0", "5", ":", "3", "0">>,
                  <<"X">>, <<"Z", "Z">>}

\* the arguments tried: nothing, the empty string, numbers, text that is no
\* timestamp, a date alone, and timestamps with fields in and out of range
FormatDateArgs ==
    {None, EmptyStr, PyInt(0), PyInt(1794072600), PyStr(NotADate),
     PyStr(<<"Z">>), PyStr(SubSeq(NextDate, 1, 10)), PyStr(SubSeq(NextDate, 1, 11)),
     PyStr(SubSeq(NextDate, 1, 13)), PyStr(SubSeq(NextDate, 1, 16))}
    \cup {PyStr(IsoText(y, mo, d, h, mi, z)) :
            y \in StampYears, mo \in StampMonths, d \in StampDays, h \in StampHours,
            mi \in StampMinutes, z \in StampSuffixes}

InitFormatDate ==
    /\ API_KEY = ""
    /\ pc = "call"
    /\ stats = NoValue
    /\ reply = NoReplies
    /\ calls = <<>>
    /\ ret = NoValue
    /\ raised = "none"
    /\ log = <<>>
    /\ fd_arg \in FormatDateArgs
    /\ fd_pc = "called"
    /\ fd_out = None

FormatDate ==
    /\ fd_pc = "called"
    /\ fd_out' = format_date(fd_arg)
    /\ fd_pc' = "done"
    /\ UNCHANGED <<API_KEY, pc, stats, reply, calls, ret, raised, log, fd_arg>>

NextFormatDate == FormatDate

SpecFormatDate == InitFormatDate /\ [][NextFormatDate]_vars

---------------------------------------------------------------------------
(* What the answers of a call say, read from their descriptors *)

Returned == pc = "done" /\ raised = "none"

Live == API_KEY # ""

SummaryFields == {"position", "played", "won", "drawn", "lost", "goals_for",
                  "goals_against", "goal_difference", "points"}

CanonicalFields == {"team_name", "league", "season", "next_match", "standings",
                    "recent_matches"} \cup SummaryFields

NextMatchFields == {"home_team", "away_team", "date", "competition", "venue"}

\* the summary the row at index i of an answered table gives
RowSummary(i) ==
    [position |-> PyInt(i), played |-> PyInt(RowPlayed(i)), won |-> PyInt(RowWin(i)),
     drawn |-> PyInt(RowDraw(i)), lost |-> PyInt(RowLose(i)),
     goals_for |-> PyInt(RowFor(i)), goals_against |-> PyInt(RowAgainst(i)),
     goal_difference |-> PyInt(RowDiff(i)), points |-> PyInt(RowPoints(i))]

DefaultSummary ==
    [position |-> None, played |-> PyInt(0), won |-> PyInt(0), drawn |-> PyInt(0),
     lost |-> PyInt(0), goals_for |-> PyInt(0), goals_against |-> PyInt(0),
     goal_difference |-> PyInt(0), points |-> PyInt(0)]

SummaryOf(r) == [f \in SummaryFields |-> r[f]]

\* a 200 answer with a table whose rows all carry every key; the name of a
\* row may be the alias or the decoy
WellFormedTable(d) ==
    d.kind = "table" /\ d.flavour \in {"good", "alias", "decoy"}

AllTransport == \A s \in DOMAIN reply : reply[s].kind = "transport"

\* the fixtures of the recent-matches answer were all processed
RecentProcessed ==
    /\ reply.recent_matches.kind = "fixtures"
    /\ \A i \in 1..Len(reply.recent_matches.list) :
            reply.recent_matches.list[i].flavour \notin RaisingFlavours

\* the outcome the goals of a fixture give the tracked team, the side read
\* from the identifiers
Outcome(f) ==
    LET atHome == f.home /\ f.flavour \notin {"neutral", "no_teams"}
        hg == IF f.flavour = "no_goals" THEN 0 ELSE f.hg
        ag == IF f.flavour = "no_goals" THEN 0 ELSE f.ag
        own == IF atHome THEN hg ELSE ag
        opp == IF atHome THEN ag ELSE hg
    IN IF own > opp THEN "W" ELSE IF own < opp THEN "L" ELSE "D"

Logged(handler) == \E i \in 1..Len(log) : log[i][1] = handler

---------------------------------------------------------------------------
(* The claims *)

\* C1: get_fcz_stats never raises: whatever the credential and whatever each
\* of the three lookups meets, no exception leaves the call and the call,
\* once over, has returned a statistics record.
C1_NeverRaises ==
    /\ raised = "none"
    /\ pc = "done" => (ret # NoValue /\ CanonicalFields \subseteq DOMAIN ret)

\* C1, witness: a call with a credential whose lookups met a transport
\* error, a payload with a null where a dict is read, and a body that is no
\* JSON, and which returned.
C1_Witness ==
    /\ Returned /\ Live
    /\ reply.standings.kind = "transport"
    /\ reply.next_match.kind = "null_teams"
    /\ reply.recent_matches.kind = "not_json"
    /\ Len(log) = 3
    /\ ret # NoValue

\* C2: without a credential the call returns the record of get_sample_data,
\* field for field, and asks the remote API nothing.
C2_NoCredentialGivesSample ==
    (pc = "done" /\ ~Live) =>
        /\ ret = get_sample_data
        /\ ret.position = PyInt(5) /\ ret.points = PyInt(22)
        /\ Len(ret.standings.v) = 10 /\ Len(ret.recent_matches.v) = 5
        /\ calls = <<>>

C2_Witness ==
    /\ pc = "done" /\ API_KEY = ""
    /\ ret = get_sample_data

\* C3: with a credential and every request failing in transport, the call
\* returns the record of get_sample_data.
C3_NetworkFailureGivesSample ==
    (Returned /\ Live /\ AllTransport) => ret = get_sample_data

\* C4 as claimed: every record returned carries every canonical field, each
\* of the nine summary fields, position included, holds a number, next_match
\* is null or has its five sub-fields, standings and recent_matches are lists.
C4_EveryFieldNumeric ==
    Returned =>
        /\ CanonicalFields \subseteq DOMAIN ret
        /\ \A f \in SummaryFields : ret[f].t = "int"
        /\ \/ ret.next_match = None
           \/ (ret.next_match.t = "dict" /\ DOMAIN ret.next_match.v = NextMatchFields)
        /\ ret.standings.t = "list"
        /\ ret.recent_matches.t = "list"

\* the tracked team's row was read and carried null under 'played'
TrackedNullPlayed ==
    /\ reply.standings.kind = "table"
    /\ reply.standings.flavour = "null_played"
    /\ reply.standings.odd = reply.standings.fcz

\* C4 as amended: every record returned carries every canonical field;
\* position is null until the tracked team's row sets it, and a number or
\* null after; each of the other eight summary fields holds a number, zero
\* until the tracked team's row sets it, unless that row carried a value that
\* is no number (null) under the key, which is then what the field holds;
\* next_match is null or has its five sub-fields; standings and
\* recent_matches are lists.
C4_Populated ==
    Returned =>
        /\ CanonicalFields \subseteq DOMAIN ret
        /\ ret.position.t \in {"none", "int"}
        /\ \A f \in SummaryFields \ {"position"} :
                \/ ret[f].t = "int"
                \/ (f = "played" /\ TrackedNullPlayed /\ ret[f] = None)
        /\ (Live /\ reply.standings.kind # "table") => SummaryOf(ret) = DefaultSummary
        /\ \/ ret.next_match = None
           \/ (ret.next_match.t = "dict" /\ DOMAIN ret.next_match.v = NextMatchFields)
        /\ ret.standings.t = "list"
        /\ ret.recent_matches.t = "list"

\* C4, witness: a call with a credential, every lookup failed: the record is
\* the default one, position null.
C4_Witness ==
    /\ Returned /\ Live /\ AllTransport
    /\ ret.position = None
    /\ ret.played = PyInt(0)
    /\ ret.next_match = None
    /\ ret.standings = PyList(<<>>)

C6_TrackedRowAtAnyIndex ==
    (Returned /\ Live /\ WellFormedTable(reply.standings)) =>
        IF reply.standings.fcz >= 1
        THEN SummaryOf(ret) = RowSummary(reply.standings.fcz)
        ELSE SummaryOf(ret) = DefaultSummary

\* C7: for every fixture of a processed recent-matches answer the result is
\* W, L or D by the tracked team's goals against the opponent's, the side
\* taken from the identifier of the home team.
C7_OutcomeByIdentifier ==
    (pc = "done" /\ Live /\ RecentProcessed) =>
        /\ Returned
        /\ Len(ret.recent_matches.v) = Len(reply.recent_matches.list)
        /\ \A i \in 1..Len(reply.recent_matches.list) :
                ret.recent_matches.v[i].result = Name(Outcome(reply.recent_matches.list[i]))

\* C7, witness: an away win: the tracked team away, the home side without a
\* goal, the result W; after a home win.
C7_Witness ==
    /\ Returned /\ Live /\ RecentProcessed
    /\ Len(reply.recent_matches.list) = MaxFixtures
    /\ LET f == reply.recent_matches.list[MaxFixtures]
       IN /\ f.flavour = "good" /\ ~f.home /\ f.hg = 0 /\ f.ag = MaxGoals
          /\ ret.recent_matches.v[MaxFixtures].result = Name("W")
    /\ ret.recent_matches.v[1].result = Name("W")

\* C8: format_date is total: it never raises; nothing and the empty string
\* give 'TBD', text that is no timestamp comes back unchanged, a timestamp
\* gives DD.MM.YYYY HH:MM.
C8_FormatDateTotal ==
    fd_pc = "done" =>
        /\ ~IsRaise(fd_out)
        /\ ~Truthy(fd_arg) => fd_out = TBD
        /\ (Truthy(fd_arg) /\ fd_arg.t = "str") =>
                IF FromIsoFormat(ReplaceZ(fd_arg.v)).ok
                THEN /\ Len(fd_out.v) = 16
                     /\ fd_out.v[3] = "." /\ fd_out.v[6] = "." /\ fd_out.v[11] = " "
                     /\ fd_out.v[14] = ":"
                ELSE fd_out = fd_arg

\* C9: a lookup that does not complete leaves every field it owns at its
\* default: when the standings handler logged an error, the nine summary
\* fields and the standings list are all as initialised.
C9_FailedLookupLeavesDefaults ==
    (Returned /\ Live) =>
        /\ Logged("standings") =>
                (SummaryOf(ret) = DefaultSummary /\ ret.standings = PyList(<<>>))
        /\ Logged("next_match") => ret.next_match = None
        /\ Logged("recent_matches") => ret.recent_matches = PyList(<<>>)

\* C10: the remote calls of one call are sequential and not retried: none
\* without a credential; with one, the requests are the standings, the next
\* fixture and the last fixtures, in that order, each issued once, each after
\* the one before was answered, whatever the answers.
C10_CallsInOrderOnce ==
    /\ ~Live => calls = <<>>
    /\ Len(calls) <= 3
    /\ \A i \in 1..Len(calls) :
            /\ calls[i].path = <<"/standings", "/fixtures", "/fixtures">>[i]
            /\ calls[i].next = <<0, 1, 0>>[i]
            /\ calls[i].last = <<0, 0, 5>>[i]
            /\ reply[Steps[i]] # NoReply
    /\ \A i \in 1..3 : pc = Steps[i] => Len(calls) = i - 1
    /\ (pc = "done" /\ Live) => Len(calls) = 3

\* C10, witness: a call with a credential whose three requests all failed in
\* transport is over with three requests issued.
C10_Witness ==
    /\ pc = "done" /\ Live /\ AllTransport
    /\ Len(calls) = 3
    /\ calls[1].path = "/standings" /\ calls[3].last = 5

===========================================================================
